---- MODULE Spec2Model ----
(***************************************************************************)
(* HtmlHighlighter: the query-set registry, its transaction queue, the     *)
(* sorted highlight marker list and the statistics kept beside them        *)
(* (src/src/htmlhighlighter.js).                                           *)
(*                                                                         *)
(* A query is abstracted by what its finder yields when the action runs:   *)
(* whether constructFinder succeeds, the hits streamed by finder.next()    *)
(* (each with its absolute offset and whether wrapping it succeeds) and    *)
(* whether finder.next() raises once the hits are exhausted.  The DOM is   *)
(* abstracted to the set of highlight wrapper elements, each carrying its  *)
(* highlight id and the query set it was created for.                      *)
(***************************************************************************)
EXTENDS Integers, Sequences, FiniteSets, TLC

\* ---------------------------------------------------------------- bounds
MaxOffset == 2        \* absolute offsets of hits range over 0..MaxOffset
MaxHits == 2          \* hits streamed by one finder
MaxReserve == 2       \* `reserve` arguments range over null, 1..MaxReserve
MaxApplies == 3       \* transactions applied in one behaviour
MaxBatches == 2       \* batched transactions applied in one behaviour
MaxQueue == 2         \* length of the transaction queue (batched use)
maxHighlight == 2     \* options.maxHighlight
MaxNodes == 3         \* text nodes of the container
MaxText == 2          \* characters of a text node: 0..MaxText

Names == {"A", "B"}
BatchNames == {"A"}

\* `null` / `undefined` for a reserve: both fail `reserve > 0` and `reserve != null`
null == -1

VARIABLES
  transaction,  \* this.transaction: the queued actions
  queries,      \* this.queries: name -> query set descriptor
  highlights,   \* this.highlights: the marker list
  stats,        \* this.stats: {queries, total, highlight}
  lastId,       \* this.lastId: next highlight id
  cursor,       \* this.cursor: {index, total}
  dom,          \* highlight wrapper elements in the container
  failed,       \* per action of the last apply(): did it log 'Failed to apply action'
  applies,      \* number of transactions applied so far
  selection,    \* window.getSelection(): the host's current text selection
  selected      \* whether getSelectedRange() was called on this selection, and its result

vars ==
  <<transaction, queries, highlights, stats, lastId, cursor, dom, failed, applies,
    selection, selected>>

\* The instance's mutable fields (everything but the queue) as one record.
This ==
  [queries |-> queries, highlights |-> highlights, stats |-> stats,
   lastId |-> lastId, cursor |-> cursor, dom |-> dom]

\* ------------------------------------------------------------ inputs
Range(f) == {f[i] : i \in DOMAIN f}

RECURSIVE SeqsUpTo(_, _)
SeqsUpTo(S, n) ==
  IF n = 0 THEN {<<>>}
  ELSE LET r == SeqsUpTo(S, n - 1)
       IN r \cup {Append(s, x) : s \in {t \in r : Len(t) = n - 1}, x \in S}

\* A hit: its absolute offset (hit.start.marker.offset + hit.start.offset)
\* and whether highlighter.do(hit) succeeds.
Hits(offsets, wraps) == [offset : offsets, wraps : wraps]

\* What one query yields: constructFinder fails, or a finder that streams
\* hits and then returns false or (throws) raises.
CtorFails == [ctor |-> FALSE, hits |-> <<>>, throws |-> FALSE]

Finders(offsets, wraps, throws) ==
  [ctor : {TRUE}, hits : SeqsUpTo(Hits(offsets, wraps), MaxHits), throws : throws]

\* What a `queries` array yields, one entry per query: no query, one query,
\* or a query whose finder cannot be constructed followed by one hit.
Arrays(offsets, wraps, throws) ==
  {<<>>, <<CtorFails>>}
    \cup {<<f>> : f \in Finders(offsets, wraps, throws)}
    \cup {<<CtorFails, f>> :
            f \in {g \in Finders(offsets, wraps, {FALSE}) : Len(g.hits) = 1}}

\* The sample page adds a set of one query, its name: hits at one offset
\* that all wrap.
WidgetDocuments == {<<f>> : f \in Finders({0}, {TRUE}, {FALSE})}

\* Registry, ids and statistics: wraps may fail, all hits at one offset.
Documents == Arrays({0}, BOOLEAN, {FALSE})

\* Marker list: hits at any offset, wraps may fail.
MarkerDocuments == Arrays(0..MaxOffset, BOOLEAN, {FALSE})

\* Batched transactions: finder.next() may raise, all hits at one offset.
BatchDocuments == Arrays({0}, {TRUE}, BOOLEAN)

Reserves == {null} \cup 1..MaxReserve

\* ------------------------------------------------------------ helpers
\* this.queries[name] = q
Put(qs, name, q) == [n \in DOMAIN qs \cup {name} |-> IF n = name THEN q ELSE qs[n]]

\* delete this.queries[name]
Delete(qs, name) == [n \in DOMAIN qs \ {name} |-> qs[n]]

\* markers.splice(pos, 0, m), pos counted from 0
splice(markers, pos, m) ==
  SubSeq(markers, 1, pos) \o <<m>> \o SubSeq(markers, pos + 1, Len(markers))

\* the binary search of add_queries_; min, max and the result count from 0
RECURSIVE bsearch(_, _, _, _)
bsearch(markers, offset, min, max) ==
  IF min < max
  THEN LET mid == (min + max) \div 2
       IN IF markers[mid + 1].offset < offset
          THEN bsearch(markers, offset, mid + 1, max)
          ELSE bsearch(markers, offset, min, mid)
  ELSE min

\* Mutant: the found index is used as it is, also past the last smaller marker.
insertAt_noStep(markers, offset) == bsearch(markers, offset, 0, Len(markers) - 1)

\* the index handed to splice
insertAt(markers, offset) ==
  LET min == bsearch(markers, offset, 0, Len(markers) - 1)
  IN IF Len(markers) > 0 /\ markers[min + 1].offset < offset THEN min + 1 ELSE min

\* RangeHighlighter.do(hit) for the highlighter built with first id `id`:
\* on success the hit's text is wrapped in elements carrying the id.
RangeHighlighter_do(d, id, name) == d \cup {[id |-> id, name |-> name]}

\* RangeUnhighlighter.undo(i) for every i in [from, to): every element carrying
\* the id is replaced by its text.
RangeUnhighlighter_undo(d, from, to) == {w \in d : ~(w.id >= from /\ w.id < to)}

\* Cursor.clear(): index -1, total recomputed as the count of enabled markers.
Cursor_clear(hh) ==
  [hh EXCEPT !.cursor =
     [index |-> -1,
      total |-> Cardinality({i \in 1..Len(hh.highlights) :
                   /\ hh.highlights[i].query \in DOMAIN hh.queries
                   /\ hh.queries[hh.highlights[i].query].enabled})]]

\* ------------------------------------------------------ add_queries_
\* The `while ((hit = finder.next()) !== false)` loop over one finder.
\* acc = [markers, dom, count, raised]
RECURSIVE whileNext(_, _, _, _, _)
whileNext(hits, throws, q, reserve, acc) ==
  IF hits = <<>>
  THEN [acc EXCEPT !.raised = throws]          \* next() returns false, or raises
  ELSE IF reserve # null /\ acc.count >= reserve
  THEN acc                                     \* 'highlight reserve exceeded': break
  ELSE LET hit == Head(hits)
           marker == [query |-> q.name, index |-> acc.count, offset |-> hit.offset]
           spliced == splice(acc.markers, insertAt(acc.markers, hit.offset), marker)
       IN whileNext(Tail(hits), throws, q, reserve,
            IF hit.wraps
            THEN [acc EXCEPT !.markers = spliced,
                             !.dom = RangeHighlighter_do(@, q.id + q.length + acc.count, q.name),
                             !.count = @ + 1]
            ELSE [acc EXCEPT !.markers = spliced])

\* queries.forEach(...): a finder that cannot be constructed is skipped, an
\* exception from finder.next() ends the iteration.
RECURSIVE forEachQuery(_, _, _, _)
forEachQuery(doc, q, reserve, acc) ==
  IF doc = <<>> \/ acc.raised THEN acc
  ELSE forEachQuery(Tail(doc), q, reserve,
         IF Head(doc).ctor
         THEN whileNext(Head(doc).hits, Head(doc).throws, q, reserve, acc)
         ELSE acc)

\* Mutant: the set's reserve is not consulted, every hit is accepted.
add_queries_ignoresReserve(hh, name, doc, enabled) ==
  LET q == hh.queries[name]
      reserve == null
      acc == forEachQuery(doc, q, reserve,
               [markers |-> hh.highlights, dom |-> hh.dom, count |-> 0, raised |-> FALSE])
      h1 == [hh EXCEPT !.highlights = acc.markers, !.dom = acc.dom]
  IN IF acc.raised
     THEN [hh |-> h1, count |-> 0, raised |-> TRUE]
     ELSE [hh |-> [h1 EXCEPT !.queries[name].length = @ + acc.count,
                             !.stats.total = IF enabled THEN @ + acc.count ELSE @],
           count |-> acc.count, raised |-> FALSE]

\* add_queries_(name, q, queries, enabled) with q = this.queries[name]
add_queries_(hh, name, doc, enabled) ==
  LET q == hh.queries[name]
      reserve == IF q.reserve > 0 THEN q.reserve - q.length ELSE null
      acc == forEachQuery(doc, q, reserve,
               [markers |-> hh.highlights, dom |-> hh.dom, count |-> 0, raised |-> FALSE])
      h1 == [hh EXCEPT !.highlights = acc.markers, !.dom = acc.dom]
  IN IF acc.raised
     THEN [hh |-> h1, count |-> 0, raised |-> TRUE]
     ELSE [hh |-> [h1 EXCEPT !.queries[name].length = @ + acc.count,
                             !.stats.total = IF enabled THEN @ + acc.count ELSE @],
           count |-> acc.count, raised |-> FALSE]

\* ------------------------------------------------------------ remove_
\* Mutant: the loop also steps forward after a splice, passing over the
\* marker that moved into the freed slot.
RECURSIVE spliceOut_skipsNext(_, _, _)
spliceOut_skipsNext(markers, i, name) ==
  IF i >= Len(markers) THEN markers
  ELSE IF markers[i + 1].query = name
  THEN spliceOut_skipsNext(SubSeq(markers, 1, i) \o SubSeq(markers, i + 2, Len(markers)),
                           i + 1, name)
  ELSE spliceOut_skipsNext(markers, i + 1, name)

\* for (let i = 0; i < markers.length; ): splice(i, 1) when markers[i].query
\* is the removed set, ++i otherwise; i counts from 0
RECURSIVE spliceOut(_, _, _)
spliceOut(markers, i, name) ==
  IF i >= Len(markers) THEN markers
  ELSE IF markers[i + 1].query = name
  THEN spliceOut(SubSeq(markers, 1, i) \o SubSeq(markers, i + 2, Len(markers)), i, name)
  ELSE spliceOut(markers, i + 1, name)

\* Precondition: get_(name) does not throw.
remove_(hh, name) ==
  LET q == hh.queries[name]
  IN [hh EXCEPT !.stats.queries = @ - 1,
                !.stats.total = @ - q.length,
                !.dom = RangeUnhighlighter_undo(@, q.id, q.id + q.length),
                !.highlights = spliceOut(@, 0, name),
                !.queries = Delete(@, name)]

\* get_(name) throws 'Query set non-existent'
get_throws(hh, name) == name \notin DOMAIN hh.queries

Raise(hh) == [hh |-> hh, raised |-> TRUE]
Return(hh) == [hh |-> hh, raised |-> FALSE]

\* --------------------------------------------------- deferred actions
deferred_remove_(hh, name) ==
  IF get_throws(hh, name) THEN Raise(hh)
  ELSE Return(Cursor_clear(remove_(hh, name)))

\* Mutant: an existing set of the same name is not removed first.
add_set_keepsOld(hh, name, doc, enabled, reserveArg) ==
  LET reserve == IF reserveArg = null \/ reserveArg < 1 THEN null ELSE reserveArg
      h1 == hh
      q == [name |-> name, enabled |-> enabled, id_highlight |-> h1.stats.highlight,
            id |-> h1.lastId, length |-> 0, reserve |-> null]
      r == add_queries_([h1 EXCEPT !.queries = Put(@, name, q)], name, doc, enabled)
      count == r.count
      h2 == IF reserve # null
            THEN IF reserve > count
                 THEN [r.hh EXCEPT !.lastId = reserve, !.queries[name].reserve = reserve]
                 ELSE [r.hh EXCEPT !.queries[name].reserve = count]
            ELSE [r.hh EXCEPT !.lastId = @ + count]
      h3 == [h2 EXCEPT !.stats.queries = @ + 1,
                       !.stats.highlight = IF @ + 1 >= maxHighlight THEN 0 ELSE @ + 1]
  IN IF r.raised THEN Raise(r.hh) ELSE Return(Cursor_clear(h3))

\* Mutant: the next id_highlight rolls over one step late.
add_set_lateRollover(hh, name, doc, enabled, reserveArg) ==
  LET reserve == IF reserveArg = null \/ reserveArg < 1 THEN null ELSE reserveArg
      h1 == IF name \in DOMAIN hh.queries THEN deferred_remove_(hh, name).hh ELSE hh
      q == [name |-> name, enabled |-> enabled, id_highlight |-> h1.stats.highlight,
            id |-> h1.lastId, length |-> 0, reserve |-> null]
      r == add_queries_([h1 EXCEPT !.queries = Put(@, name, q)], name, doc, enabled)
      count == r.count
      h2 == IF reserve # null
            THEN IF reserve > count
                 THEN [r.hh EXCEPT !.lastId = reserve, !.queries[name].reserve = reserve]
                 ELSE [r.hh EXCEPT !.queries[name].reserve = count]
            ELSE [r.hh EXCEPT !.lastId = @ + count]
      h3 == [h2 EXCEPT !.stats.queries = @ + 1,
                       !.stats.highlight = IF @ + 1 > maxHighlight THEN 0 ELSE @ + 1]
  IN IF r.raised THEN Raise(r.hh) ELSE Return(Cursor_clear(h3))

\* deferred_add_ once `queries` is known to be an array
add_set_(hh, name, doc, enabled, reserveArg) ==
  LET reserve == IF reserveArg = null \/ reserveArg < 1 THEN null ELSE reserveArg
      h1 == IF name \in DOMAIN hh.queries THEN deferred_remove_(hh, name).hh ELSE hh
      q == [name |-> name, enabled |-> enabled, id_highlight |-> h1.stats.highlight,
            id |-> h1.lastId, length |-> 0, reserve |-> null]
      r == add_queries_([h1 EXCEPT !.queries = Put(@, name, q)], name, doc, enabled)
      count == r.count
      h2 == IF reserve # null
            THEN IF reserve > count
                 THEN [r.hh EXCEPT !.lastId = reserve, !.queries[name].reserve = reserve]
                 ELSE [r.hh EXCEPT !.queries[name].reserve = count]
            ELSE [r.hh EXCEPT !.lastId = @ + count]
      h3 == [h2 EXCEPT !.stats.queries = @ + 1,
                       !.stats.highlight = IF @ + 1 >= maxHighlight THEN 0 ELSE @ + 1]
  IN IF r.raised THEN Raise(r.hh) ELSE Return(Cursor_clear(h3))

\* Mutant: the existing set is removed before `queries` is validated.
deferred_add_lateCheck(hh, name, isArray, doc, enabled, reserveArg) ==
  IF ~isArray
  THEN Raise(IF name \in DOMAIN hh.queries THEN deferred_remove_(hh, name).hh ELSE hh)
  ELSE add_set_(hh, name, doc, enabled, reserveArg)

deferred_add_(hh, name, isArray, doc, enabled, reserveArg) ==
  IF ~isArray THEN Raise(hh) ELSE add_set_(hh, name, doc, enabled, reserveArg)

deferred_append_(hh, name, isArray, doc, enabled) ==
  IF ~isArray THEN Raise(hh)
  ELSE IF name \notin DOMAIN hh.queries THEN Raise(hh)
  ELSE LET r == add_queries_(hh, name, doc, enabled)
       IN IF r.raised THEN Raise(r.hh) ELSE Return(Cursor_clear(r.hh))

\* Mutant: the early return for an already enabled set is missing.
deferred_enable_again(hh, name) ==
  IF get_throws(hh, name) THEN Raise(hh)
  ELSE LET q == hh.queries[name]
       IN Return(Cursor_clear([hh EXCEPT !.queries[name].enabled = TRUE,
                                         !.stats.total = @ + q.length]))

deferred_enable_(hh, name) ==
  IF get_throws(hh, name) THEN Raise(hh)
  ELSE LET q == hh.queries[name]
       IN IF q.enabled THEN Return(hh)
          ELSE Return(Cursor_clear([hh EXCEPT !.queries[name].enabled = TRUE,
                                              !.stats.total = @ + q.length]))

\* Mutant: disabling a set leaves the cursor where it was.
deferred_disable_keepsCursor(hh, name) ==
  IF get_throws(hh, name) THEN Raise(hh)
  ELSE LET q == hh.queries[name]
       IN IF ~q.enabled THEN Return(hh)
          ELSE Return([hh EXCEPT !.queries[name].enabled = FALSE,
                                 !.stats.total = @ - q.length])

deferred_disable_(hh, name) ==
  IF get_throws(hh, name) THEN Raise(hh)
  ELSE LET q == hh.queries[name]
       IN IF ~q.enabled THEN Return(hh)
          ELSE Return(Cursor_clear([hh EXCEPT !.queries[name].enabled = FALSE,
                                              !.stats.total = @ - q.length]))

\* Object.keys(this.queries).forEach(k => this.remove_(k))
RECURSIVE removeAll(_)
removeAll(hh) ==
  IF DOMAIN hh.queries = {} THEN hh
  ELSE removeAll(remove_(hh, CHOOSE k \in DOMAIN hh.queries : TRUE))

deferred_clear_(hh, reset) ==
  LET h1 == removeAll(hh)
      h2 == IF reset THEN [h1 EXCEPT !.lastId = 0, !.stats.highlight = 0] ELSE h1
  IN Return(Cursor_clear(h2))

\* empty(): no query set holds a highlight
empty(hh) == ~(\E k \in DOMAIN hh.queries : hh.queries[k].length > 0)

\* ------------------------------------------------------------- cursor
\* Cursor.set(index, reverse): the index is taken modulo total, rolling
\* forward on overflow and backward on underflow; with no enabled highlight
\* the cursor stays where it is.
Cursor_set(c, index, reverse) ==
  IF c.total <= 0 THEN c ELSE [c EXCEPT !.index = index % c.total]

\* next(): this.cursor.set(this.cursor.index + 1, false)
cursorNext(c) == Cursor_set(c, c.index + 1, FALSE)

\* Mutant: prev() steps back without rolling over at the first highlight.
cursorPrev_noRollover(c) ==
  IF c.total <= 0 THEN c
  ELSE Cursor_set(c, (IF c.index < 1 THEN 1 ELSE c.index) - 1, FALSE)

\* prev(): nothing when total <= 0, else set((index < 1 ? total : index) - 1, false)
cursorPrev(c) ==
  IF c.total <= 0 THEN c
  ELSE Cursor_set(c, (IF c.index < 1 THEN c.total ELSE c.index) - 1, FALSE)

\* ---------------------------------------------------------- selection
\* The content's text nodes are numbered from 0 in document order; node n
\* holds TextLength(n) characters (empty text nodes are not in the content).
TextLength(n) == 1 + (n % MaxText)

\* TextContent marker of node n: the node and the absolute offset of its text.
RECURSIVE MarkerOffset(_)
MarkerOffset(n) == IF n = 0 THEN 0 ELSE MarkerOffset(n - 1) + TextLength(n - 1)

\* this.content.at(n)
TextContent_at(n) == [node |-> n, offset |-> MarkerOffset(n)]

\* A DOM node as the selection sees it: its nodeType and what
\* this.content.find(node) gives (-1: not a text node of the content).
nullNode == [nodeType |-> 0, index |-> -1]
ElementNode == [nodeType |-> 1, index |-> -1]
DetachedText == [nodeType |-> 3, index |-> -1]
TextNodes == [nodeType : {3}, index : 0..(MaxNodes - 1)]

\* this.content.find(node)
TextContent_find(node) == node.index

\* offsets a selection boundary can take in a node
OffsetsIn(node) == IF node.index >= 0 THEN 0..TextLength(node.index) ELSE {0, 1}

\* absolute position of a boundary in the flat text
BoundaryAbs(node, offset) == MarkerOffset(node.index) + offset

Abs(x) == IF x < 0 THEN -x ELSE x

\* sel.toString().length: the characters between the boundaries, one less
\* where the rendering collapses whitespace.
StringLengths(a, ao, f, fo) ==
  IF a.index >= 0 /\ f.index >= 0
  THEN LET d == Abs(BoundaryAbs(f, fo) - BoundaryAbs(a, ao))
       IN {x \in {d - 1, d} : x >= 0}
  ELSE {0, 1}

NoSelection ==
  [anchorNode |-> nullNode, anchorOffset |-> 0,
   focusNode |-> nullNode, focusOffset |-> 0, length |-> 0]

\* window.getSelection()
Selections ==
  {NoSelection} \cup
  {[anchorNode |-> a, anchorOffset |-> ao, focusNode |-> f, focusOffset |-> fo,
    length |-> l] :
      a \in TextNodes \cup {ElementNode, DetachedText},
      f \in TextNodes \cup {ElementNode, DetachedText},
      ao \in 0..MaxText, fo \in 0..MaxText, l \in 0..(MaxNodes * MaxText)}

Selectable(sel) ==
  \/ sel = NoSelection
  \/ /\ sel.anchorOffset \in OffsetsIn(sel.anchorNode)
     /\ sel.focusOffset \in OffsetsIn(sel.focusNode)
     /\ sel.length \in StringLengths(sel.anchorNode, sel.anchorOffset,
                                      sel.focusNode, sel.focusOffset)

\* Range.descriptorRel(marker, offset): the offset is clamped into the
\* marker's node.
Range_descriptorRel(marker, offset) ==
  [marker |-> marker,
   offset |-> IF offset < 0 THEN 0
              ELSE IF offset > TextLength(marker.node) - 1 THEN TextLength(marker.node) - 1
              ELSE offset]

\* new Range(content, start, end); `null` is the empty sequence
new_Range(start, end) == <<[start |-> start, end |-> end]>>
NoRange == <<>>

\* getSelectedRange() has not been called since the selection last changed
NotCalled == [called |-> FALSE, range |-> NoRange]

\* absolute offset of a position descriptor
absolute(descr) == descr.marker.offset + descr.offset

getSelectedRange(sel) ==
  IF sel.anchorNode = nullNode THEN NoRange
  ELSE IF sel.anchorNode.nodeType # 3 \/ sel.focusNode.nodeType # 3 THEN NoRange
  ELSE
    LET sameNode == sel.anchorNode = sel.focusNode
        len == IF sameNode THEN sel.focusOffset - sel.anchorOffset ELSE sel.length
        start == TextContent_find(sel.anchorNode)
        end == IF sameNode THEN start ELSE TextContent_find(sel.focusNode)
    IN IF len <= 0 THEN NoRange
       ELSE IF start < 0 \/ end < 0 THEN NoRange
       ELSE IF start < end \/ (start = end /\ sel.anchorOffset < sel.focusOffset)
       THEN LET s == Range_descriptorRel(TextContent_at(start), sel.anchorOffset)
            IN new_Range(s,
                 IF sameNode
                 THEN [s EXCEPT !.offset = s.offset + len - 1]
                 ELSE Range_descriptorRel(TextContent_at(end), sel.focusOffset - 1))
       ELSE LET s == Range_descriptorRel(TextContent_at(end), sel.focusOffset)
            IN new_Range(s,
                 IF sameNode
                 THEN [s EXCEPT !.offset = @ + len - 1]
                 ELSE Range_descriptorRel(TextContent_at(start), sel.anchorOffset - 1))

\* ------------------------------------------------------- transactions
\* The closure a public operation pushes, run against what the document yields.
Run(a, hh, doc) ==
  CASE a.op = "add" -> deferred_add_(hh, a.name, a.isArray, doc, a.enabled, a.reserve)
    [] a.op = "append" -> deferred_append_(hh, a.name, a.isArray, doc, a.enabled)
    [] a.op = "remove" -> deferred_remove_(hh, a.name)
    [] a.op = "enable" -> deferred_enable_(hh, a.name)
    [] a.op = "disable" -> deferred_disable_(hh, a.name)
    [] a.op = "clear" -> deferred_clear_(hh, a.reset)

\* Only an add or append handed an array consults the document.
Yields(a, docs) ==
  IF a.op \in {"add", "append"} /\ a.isArray THEN docs ELSE {<<>>}

\* Mutant: the queue is drained from its end.
RECURSIVE forEachAction_lifo(_, _, _, _)
forEachAction_lifo(actions, docs, hh, log) ==
  IF actions = <<>> THEN {[hh |-> hh, failed |-> log]}
  ELSE LET n == Len(actions)
       IN UNION {forEachAction_lifo(SubSeq(actions, 1, n - 1), docs, r.hh, <<r.raised>> \o log) :
                   r \in {Run(actions[n], hh, d) : d \in Yields(actions[n], docs)}}

\* Mutant: no try/catch, the first exception ends the iteration.
RECURSIVE forEachAction_abort(_, _, _, _)
forEachAction_abort(actions, docs, hh, log) ==
  IF actions = <<>> THEN {[hh |-> hh, failed |-> log]}
  ELSE UNION {IF r.raised
              THEN {[hh |-> r.hh, failed |-> Append(log, TRUE)]}
              ELSE forEachAction_abort(Tail(actions), docs, r.hh, Append(log, FALSE)) :
                r \in {Run(Head(actions), hh, d) : d \in Yields(Head(actions), docs)}}

\* this.transaction.forEach(action => try { action() } catch { console.error })
\* The set of outcomes [hh, failed], one per choice of what the document yields.
RECURSIVE forEachAction(_, _, _, _)
forEachAction(actions, docs, hh, log) ==
  IF actions = <<>> THEN {[hh |-> hh, failed |-> log]}
  ELSE UNION {forEachAction(Tail(actions), docs, r.hh, Append(log, r.raised)) :
                r \in {Run(Head(actions), hh, d) : d \in Yields(Head(actions), docs)}}

\* Mutant: the operation runs at once instead of waiting for apply().
push_eager(cap, depth, a) ==
  /\ Len(transaction) < cap
  /\ applies < depth
  /\ transaction' = Append(transaction, a)
  /\ \E r \in {Run(a, This, <<>>)} :
       /\ queries' = r.hh.queries
       /\ highlights' = r.hh.highlights
       /\ stats' = r.hh.stats
       /\ lastId' = r.hh.lastId
       /\ cursor' = r.hh.cursor
       /\ dom' = r.hh.dom
  /\ UNCHANGED <<failed, applies, selection, selected>>

push(cap, depth, a) ==
  /\ Len(transaction) < cap
  /\ applies < depth
  /\ transaction' = Append(transaction, a)
  /\ UNCHANGED <<queries, highlights, stats, lastId, cursor, dom, failed, applies,
                 selection, selected>>

add(names, enableds, reserves, cap, depth) ==
  \E name \in names, isArray \in BOOLEAN, enabled \in enableds, reserve \in reserves :
    push(cap, depth, [op |-> "add", name |-> name, isArray |-> isArray,
               enabled |-> enabled, reserve |-> reserve])

append(names, enableds, cap, depth) ==
  \E name \in names, isArray \in BOOLEAN, enabled \in enableds :
    push(cap, depth, [op |-> "append", name |-> name, isArray |-> isArray, enabled |-> enabled])

remove(names, cap, depth) == \E name \in names : push(cap, depth, [op |-> "remove", name |-> name])

enable(names, cap, depth) == \E name \in names : push(cap, depth, [op |-> "enable", name |-> name])

disable(names, cap, depth) == \E name \in names : push(cap, depth, [op |-> "disable", name |-> name])

clear(cap, depth) == \E reset \in BOOLEAN : push(cap, depth, [op |-> "clear", reset |-> reset])

apply(docs, depth) ==
  IF transaction = <<>>
  THEN UNCHANGED vars                       \* 'Nothing to apply'
  ELSE \E r \in forEachAction(transaction, docs, This, <<>>) :
         /\ applies < depth
         /\ applies' = applies + 1
         /\ transaction' = <<>>
         /\ failed' = r.failed
         /\ queries' = r.hh.queries
         /\ highlights' = r.hh.highlights
         /\ stats' = r.hh.stats
         /\ lastId' = r.hh.lastId
         /\ cursor' = r.hh.cursor
         /\ dom' = r.hh.dom
         /\ UNCHANGED <<selection, selected>>

\* An operation followed at once by apply(): `owner.<operation>(...).apply()`.
\* The action joins whatever is queued and the whole queue is drained.
applyNow(a, docs, depth) ==
  /\ applies < depth
  /\ \E r \in forEachAction(Append(transaction, a), docs, This, <<>>) :
       /\ applies' = applies + 1
       /\ transaction' = <<>>
       /\ failed' = r.failed
       /\ queries' = r.hh.queries
       /\ highlights' = r.hh.highlights
       /\ stats' = r.hh.stats
       /\ lastId' = r.hh.lastId
       /\ cursor' = r.hh.cursor
       /\ dom' = r.hh.dom
       /\ UNCHANGED <<selection, selected>>

\* The widget row's enable checkbox, as it is after the click.
Toggle(name, checked) == [op |-> IF checked THEN "enable" ELSE "disable", name |-> name]

\* Click on the remove control of a widget row: remove(name).apply()
clickRemove(depth) ==
  \E name \in DOMAIN queries : applyNow([op |-> "remove", name |-> name], WidgetDocuments, depth)

\* Mutant: the checkbox handler applies the toggle at once.
clickEnable_applies(cap, depth) ==
  \E name \in DOMAIN queries, checked \in BOOLEAN :
    applyNow(Toggle(name, checked), WidgetDocuments, depth)

\* Click on the enable checkbox of a widget row: enable(name) or
\* disable(name), without apply()
clickEnable(cap, depth) ==
  \E name \in DOMAIN queries, checked \in BOOLEAN :
    push(cap, depth, Toggle(name, checked))

\* The sample page's add button: add(name, [name], true).apply()
clickAdd(names, depth) ==
  \E name \in names :
    applyNow([op |-> "add", name |-> name, isArray |-> TRUE, enabled |-> TRUE,
              reserve |-> null], WidgetDocuments, depth)

next ==
  /\ cursor' = cursorNext(cursor)
  /\ UNCHANGED <<transaction, queries, highlights, stats, lastId, dom, failed, applies,
                 selection, selected>>

prev ==
  /\ cursor' = cursorPrev(cursor)
  /\ UNCHANGED <<transaction, queries, highlights, stats, lastId, dom, failed, applies,
                 selection, selected>>

\* The user changes the text selection in the host.
select ==
  /\ \E sel \in Selections : Selectable(sel) /\ selection' = sel
  /\ selected' = NotCalled
  /\ UNCHANGED <<transaction, queries, highlights, stats, lastId, cursor, dom, failed,
                 applies>>

\* A call of getSelectedRange() on the current selection, its result kept.
ReturnSelectedRange ==
  /\ selected' = [called |-> TRUE, range |-> getSelectedRange(selection)]
  /\ UNCHANGED <<transaction, queries, highlights, stats, lastId, cursor, dom, failed,
                 applies, selection>>

\* window.getSelection().empty() / removeAllRanges()
clearSelectedRange ==
  /\ selection' = NoSelection
  /\ selected' = NotCalled
  /\ UNCHANGED <<transaction, queries, highlights, stats, lastId, cursor, dom, failed,
                 applies>>

Init ==
  /\ transaction = <<>>
  /\ queries = <<>>
  /\ highlights = <<>>
  /\ stats = [queries |-> 0, total |-> 0, highlight |-> 0]
  /\ lastId = 0
  /\ cursor = [index |-> -1, total |-> 0]
  /\ dom = {}
  /\ failed = <<>>
  /\ applies = 0
  /\ selection = NoSelection
  /\ selected = NotCalled

\* Each operation applied at once, as in `highlighter.add(...).apply()`.
Next ==
  \/ add(Names, BOOLEAN, Reserves, 1, MaxApplies)
  \/ append(Names, BOOLEAN, 1, MaxApplies)
  \/ remove(Names, 1, MaxApplies)
  \/ enable(Names, 1, MaxApplies)
  \/ disable(Names, 1, MaxApplies)
  \/ clear(1, MaxApplies)
  \/ apply(Documents, MaxApplies)

Spec == Init /\ [][Next]_vars

\* Operations batched into one transaction before apply().
NextBatch ==
  \/ add(BatchNames, BOOLEAN, {null}, MaxQueue, MaxBatches)
  \/ append(BatchNames, BOOLEAN, MaxQueue, MaxBatches)
  \/ remove(BatchNames, MaxQueue, MaxBatches)
  \/ enable(BatchNames, MaxQueue, MaxBatches)
  \/ disable(BatchNames, MaxQueue, MaxBatches)
  \/ clear(MaxQueue, MaxBatches)
  \/ apply(BatchDocuments, MaxBatches)

SpecBatch == Init /\ [][NextBatch]_vars

\* The operations that touch the marker list, over hits at any offset.
NextMarkers ==
  \/ add(Names, {TRUE}, {null}, 1, MaxApplies)
  \/ append(Names, {TRUE}, 1, MaxApplies)
  \/ remove(Names, 1, MaxApplies)
  \/ clear(1, MaxApplies)
  \/ apply(MarkerDocuments, MaxApplies)

SpecMarkers == Init /\ [][NextMarkers]_vars

\* The cursor stepped over the highlights while query sets come and go.
NextCursor ==
  \/ add(Names, BOOLEAN, {null}, 1, MaxBatches)
  \/ append(Names, BOOLEAN, 1, MaxBatches)
  \/ remove(Names, 1, MaxBatches)
  \/ enable(Names, 1, MaxBatches)
  \/ disable(Names, 1, MaxBatches)
  \/ clear(1, MaxBatches)
  \/ apply(Documents, MaxBatches)
  \/ next
  \/ prev

SpecCursor == Init /\ [][NextCursor]_vars

\* The widget: rows are removed and toggled by clicks, sets added by the page.
NextWidget ==
  \/ clickAdd(Names, MaxApplies)
  \/ clickRemove(MaxApplies)
  \/ clickEnable(MaxQueue, MaxApplies)

SpecWidget == Init /\ [][NextWidget]_vars

\* Text selection in the host, read through getSelectedRange().
NextSelection == select \/ ReturnSelectedRange \/ clearSelectedRange

SpecSelection == Init /\ [][NextSelection]_vars

\* ============================================================ claims
RECURSIVE SumLength(_, _)
SumLength(qs, names) ==
  IF names = {} THEN 0
  ELSE LET n == CHOOSE k \in names : TRUE
       IN qs[n].length + SumLength(qs, names \ {n})

EnabledNames(qs) == {n \in DOMAIN qs : qs[n].enabled}

\* The step is apply() draining a non-empty transaction.
Applying == applies' = applies + 1

\* The step is apply() running the single queued action a against doc.
Applied(a, doc) ==
  /\ Applying
  /\ transaction = <<a>>
  /\ LET r == Run(a, This, doc)
     IN This' = r.hh /\ failed' = <<r.raised>>

\* Number of hits an array yields when every finder is constructed.
RECURSIVE HitCount(_)
HitCount(doc) == IF doc = <<>> THEN 0 ELSE Len(Head(doc).hits) + HitCount(Tail(doc))

AllWrap(doc) == \A i \in 1..Len(doc) : \A j \in 1..Len(doc[i].hits) : doc[i].hits[j].wraps

\* C1: after every apply(), stats.total is the sum of q.length over the
\* enabled query sets.
C1_TotalIsEnabledSum ==
  transaction = <<>> => stats.total = SumLength(queries, EnabledNames(queries))

\* C2: after every apply(), every id in [q.id, q.id + q.length) of a live
\* query set q still has q's wrapper in the DOM, and no wrapper is left of a
\* set that is no longer live (so removing one set never unwraps a highlight
\* of another live set).
C2_WrappersOfLiveSets ==
  transaction = <<>> =>
    /\ \A n \in DOMAIN queries :
         \A i \in queries[n].id..(queries[n].id + queries[n].length - 1) :
           [id |-> i, name |-> n] \in dom
    /\ \A w \in dom : w.name \in DOMAIN queries

\* C3: an applied add with reserve R whose queries yield H > R hits wraps
\* exactly R of them: q.length = R, R markers, lastId advanced by R.
C3_ReserveCapsAdd ==
  [][\A a \in [op : {"add"}, name : Names, isArray : {TRUE}, enabled : BOOLEAN,
               reserve : 1..MaxReserve] :
       \A doc \in Documents :
         (Applied(a, doc) /\ AllWrap(doc) /\ HitCount(doc) > a.reserve) =>
            /\ queries'[a.name].length = a.reserve
            /\ Cardinality({i \in 1..Len(highlights') :
                              highlights'[i].query = a.name}) = a.reserve
            /\ lastId' = lastId + a.reserve]_vars

\* C4: an applied add that produced `count` highlights advances lastId by
\* `reserve` when a reserve > count was given (and records q.reserve), by
\* `count` otherwise; lastId decreases only through clear(true).
C4_LastIdAdvance ==
  [][/\ \A a \in [op : {"add"}, name : Names, isArray : {TRUE}, enabled : BOOLEAN,
                  reserve : Reserves] :
          \A doc \in Documents :
            Applied(a, doc) =>
              LET count == queries'[a.name].length
              IN IF a.reserve # null /\ a.reserve > count
                 THEN /\ lastId' = lastId + a.reserve
                      /\ queries'[a.name].reserve = a.reserve
                 ELSE lastId' = lastId + count
     /\ lastId' < lastId => transaction = <<[op |-> "clear", reset |-> TRUE]>>]_vars

\* C5: add, append, remove, enable, disable and clear only append one action
\* to the transaction queue; until apply() runs, the registry, the marker
\* list, stats, lastId, the cursor and the DOM are unchanged.
C5_OperationsOnlyEnqueue ==
  [][~Applying =>
       /\ \E a \in Range(transaction') : transaction' = Append(transaction, a)
       /\ UNCHANGED <<queries, highlights, stats, lastId, cursor, dom>>]_vars

\* C5 witness: a remove is queued for a set that is still registered with
\* its markers.
C5_Witness ==
  /\ Len(transaction) = 1
  /\ transaction[1].op = "remove"
  /\ transaction[1].name \in DOMAIN queries
  /\ \E i \in 1..Len(highlights) : highlights[i].query = transaction[1].name

\* What running `actions` one after the other, each on the state the previous
\* one left, can give: [hh, failed] per choice of what the document yields.
RECURSIVE StatesAfter(_, _, _)
StatesAfter(actions, hh, docs) ==
  IF actions = <<>> THEN {[hh |-> hh, failed |-> <<>>]}
  ELSE LET n == Len(actions)
       IN {[hh |-> Run(actions[n], s.hh, d).hh,
            failed |-> Append(s.failed, Run(actions[n], s.hh, d).raised)] :
             s \in StatesAfter(SubSeq(actions, 1, n - 1), hh, docs),
             d \in Yields(actions[n], docs)}

\* C6: apply() runs every queued action once, in enqueue order, each on the
\* state its predecessor committed (add(X) then remove(X) leaves X absent),
\* and empties the queue; with nothing enqueued no step changes the instance.
C6_AppliesInEnqueueOrder ==
  [][/\ Applying =>
          /\ transaction' = <<>>
          /\ [hh |-> This', failed |-> failed'] \in
                StatesAfter(transaction, This, BatchDocuments)
          /\ \A i \in 1..(Len(transaction) - 1) :
               (/\ transaction[i].op = "add"
                /\ transaction[i].isArray
                /\ transaction[i + 1].op = "remove"
                /\ transaction[i + 1].name = transaction[i].name
                /\ i + 1 = Len(transaction))
               => (transaction[i].name \notin DOMAIN queries' /\ ~failed'[i + 1])
     /\ transaction = <<>> =>
          UNCHANGED <<queries, highlights, stats, lastId, cursor, dom, failed, applies>>]_vars

\* C6 witness: the first transaction held two actions, both ran, the first
\* was an add (the next-id_highlight moved) and the second removed its set.
C6_Witness ==
  /\ applies = 1
  /\ transaction = <<>>
  /\ failed = <<FALSE, FALSE>>
  /\ stats.highlight = 1
  /\ queries = <<>>

\* C7: when a queued action raises, apply() does not raise: the effects of the
\* actions before it are kept and every action after it still runs, from the
\* state the raising action left.
C7_RaiseDoesNotInterrupt ==
  [][Applying =>
       /\ transaction' = <<>>
       /\ Len(failed') = Len(transaction)
       /\ \A i \in 1..Len(transaction) :
            failed'[i] =>
              \E s \in StatesAfter(SubSeq(transaction, 1, i - 1), This, BatchDocuments) :
                \E d \in Yields(transaction[i], BatchDocuments) :
                  /\ s.failed = SubSeq(failed', 1, i - 1)
                  /\ Run(transaction[i], s.hh, d).raised
                  /\ [hh |-> This', failed |-> SubSeq(failed', i + 1, Len(transaction))]
                       \in StatesAfter(SubSeq(transaction, i + 1, Len(transaction)),
                                       Run(transaction[i], s.hh, d).hh, BatchDocuments)]_vars

\* C7 witness: the first queued action raised and the second one still ran
\* and registered its query set with a highlight.
C7_Witness ==
  /\ transaction = <<>>
  /\ failed = <<TRUE, FALSE>>
  /\ \E n \in DOMAIN queries : queries[n].length > 0

\* An action with an invalid argument: `queries` is not an array, or the
\* named query set does not exist.
Invalid(a, qs) ==
  \/ a.op \in {"add", "append"} /\ ~a.isArray
  \/ a.op \in {"append", "remove", "enable", "disable"} /\ a.name \notin DOMAIN qs

\* C8: an action with an invalid argument raises before changing anything:
\* registry, marker list, stats, lastId (and the DOM) are as before.
C8_InvalidArgumentChangesNothing ==
  [][\A a \in Range(transaction) :
       (Applying /\ transaction = <<a>> /\ Invalid(a, queries)) =>
          /\ failed' = <<TRUE>>
          /\ UNCHANGED <<queries, highlights, stats, lastId, dom>>]_vars

\* C8 witness: an action has raised while a query set with highlights was
\* registered.
C8_Witness ==
  /\ transaction = <<>>
  /\ failed = <<TRUE>>
  /\ \E n \in DOMAIN queries : queries[n].length > 0
  /\ highlights # <<>>

\* C9: after every apply(), the marker list is ordered non-decreasingly by
\* offset.
C9_MarkersSorted ==
  transaction = <<>> =>
    \A i \in 1..(Len(highlights) - 1) : highlights[i].offset <= highlights[i + 1].offset

\* C9 witness: markers at the least and the greatest offset, a hit placed
\* before an earlier hit of its query and one placed after.
C9_Witness ==
  /\ transaction = <<>>
  /\ Len(highlights) >= 3
  /\ highlights[1].offset = 0
  /\ highlights[Len(highlights)].offset = MaxOffset
  /\ \E i, j \in 1..Len(highlights) :
       /\ i < j
       /\ highlights[i].query = highlights[j].query
       /\ highlights[i].index > highlights[j].index
  /\ \E i, j \in 1..Len(highlights) :
       /\ i < j
       /\ highlights[i].query = highlights[j].query
       /\ highlights[i].index < highlights[j].index

\* C10: after every apply(), the marker list has as many entries as the sum
\* of q.length over all query sets, also when wraps fail.
C10_MarkerCountIsSumLength ==
  transaction = <<>> => Len(highlights) = SumLength(queries, DOMAIN queries)

\* The selection lies within one text node of the content.
SameNode(sel) == sel.anchorNode = sel.focusNode /\ sel.anchorNode \in TextNodes

\* The selection's two boundaries are in text nodes of the content.
InContent(sel) == sel.anchorNode \in TextNodes /\ sel.focusNode \in TextNodes

\* The selection with anchor and focus exchanged: the same characters,
\* selected in the other direction.
Reversed(sel) ==
  [sel EXCEPT !.anchorNode = sel.focusNode, !.anchorOffset = sel.focusOffset,
              !.focusNode = sel.anchorNode, !.focusOffset = sel.anchorOffset]

\* C17: on a selection within one text node getSelectedRange() uses the
\* length |focusOffset - anchorOffset|: a right-to-left selection
\* (focusOffset < anchorOffset) returns the Range of the left-to-right
\* selection of the same characters, not null.
C17_BackwardSelectionSameRange ==
  (/\ selected.called
   /\ SameNode(selection)
   /\ selection.focusOffset < selection.anchorOffset)
  => /\ selected.range # NoRange
     /\ selected.range = getSelectedRange(Reversed(selection))

\* C18: getSelectedRange() returns no empty or inverted Range: a zero-length
\* selection yields null, and a returned Range has absolute(start) <=
\* absolute(end), start on the first and end on the last selected character
\* (within one node end.offset = start.offset + length - 1), whichever way
\* the selection was made, within one node and across two.
C18_RangeNeverEmptyOrInverted ==
  (selected.called /\ InContent(selection)) =>
    LET a == BoundaryAbs(selection.anchorNode, selection.anchorOffset)
        f == BoundaryAbs(selection.focusNode, selection.focusOffset)
    IN /\ a = f => selected.range = NoRange
       /\ selected.range # NoRange =>
            LET r == selected.range[1]
            IN /\ absolute(r.start) <= absolute(r.end)
               /\ absolute(r.start) = (IF a < f THEN a ELSE f)
               /\ absolute(r.end) = (IF a < f THEN f ELSE a) - 1
               /\ SameNode(selection) =>
                    /\ r.end.marker = r.start.marker
                    /\ r.end.offset =
                         r.start.offset
                           + Abs(selection.focusOffset - selection.anchorOffset) - 1

\* next() and prev() roll over, seen from cursor c with c.total > 0; prev()
\* does nothing when c.total <= 0.
RollsOver(c) ==
  /\ c.total > 0 =>
       /\ cursorNext(c).total = c.total
       /\ cursorNext(c).index = (IF c.index = c.total - 1 THEN 0 ELSE c.index + 1)
       /\ cursorPrev(c).total = c.total
       /\ cursorPrev(c).index = (IF c.index < 1 THEN c.total - 1 ELSE c.index - 1)
       /\ c.index >= 0 => cursorPrev(cursorNext(c)) = c
  /\ c.total <= 0 => cursorPrev(c) = c

\* C20: with total > 0 enabled highlights next() moves the index from i to
\* i + 1 and from total - 1 to 0, prev() moves it from i to i - 1 and from 0
\* or -1 to total - 1, so prev() undoes next() from any index >= 0; prev()
\* with total <= 0 changes nothing.
C20_CursorRollsOver ==
  [][/\ RollsOver(cursor)
     /\ RollsOver(cursor')
     /\ (UNCHANGED <<transaction, applies>> /\ cursor.total > 0) =>
          /\ cursor'.total = cursor.total
          /\ cursor'.index \in
               {IF cursor.index = cursor.total - 1 THEN 0 ELSE cursor.index + 1,
                IF cursor.index < 1 THEN cursor.total - 1 ELSE cursor.index - 1}]_vars

\* C20 witness: the cursor stands on the last of three or more enabled
\* highlights, which only prev() from the first (or from -1) reaches directly
\* and next() reaches step by step.
C20_Witness ==
  /\ cursor.total >= 3
  /\ cursor.index = cursor.total - 1
  /\ applies = MaxBatches

\* C19: empty() returns false if no query sets are currently contained and
\* true otherwise.
C19_EmptyFalseWithoutSets ==
  empty(This) = (DOMAIN queries # {})

\* Number of markers of the query set `name`.
MarkersOf(markers, name) ==
  Cardinality({i \in 1..Len(markers) : markers[i].query = name})

C12_ClearEmptiesEverything ==
  [][\A a \in {b \in Range(transaction) : b.op = "clear"} :
       (Applying /\ transaction = <<a>>) =>
          /\ ~failed'[1]
          /\ queries' = <<>>
          /\ highlights' = <<>>
          /\ stats'.queries = 0
          /\ stats'.total = 0
          /\ IF a.reset
             THEN lastId' = 0 /\ stats'.highlight = 0
             ELSE lastId' = lastId /\ stats'.highlight = stats.highlight]_vars

ToggleOf(op, name) == [op |-> op, name |-> name]

\* C13: enable on an enabled set and disable on a disabled set change
\* nothing; enable on a disabled set adds q.length to stats.total and disable
\* on an enabled set subtracts it, neither touching q.length, q.id, the marker
\* list or lastId; disable then enable (and enable then disable) applied in
\* one transaction restore q.enabled and stats.total.
C13_EnableDisableInverse ==
  [][\A n \in DOMAIN queries :
       LET q == queries[n]
           toggled(on, by) ==
             /\ queries' = [queries EXCEPT ![n].enabled = on]
             /\ stats' = [stats EXCEPT !.total = @ + by]
             /\ UNCHANGED <<highlights, lastId, dom>>
             /\ failed' = <<FALSE>>
           restored ==
             /\ UNCHANGED <<queries, stats, highlights, lastId, dom>>
             /\ failed' = <<FALSE, FALSE>>
       IN Applying =>
            /\ transaction = <<ToggleOf("enable", n)>> =>
                 IF q.enabled
                 THEN UNCHANGED <<queries, stats, highlights, lastId, dom, cursor>>
                 ELSE toggled(TRUE, q.length)
            /\ transaction = <<ToggleOf("disable", n)>> =>
                 IF q.enabled
                 THEN toggled(FALSE, 0 - q.length)
                 ELSE UNCHANGED <<queries, stats, highlights, lastId, dom, cursor>>
            /\ (transaction = <<ToggleOf("disable", n), ToggleOf("enable", n)>> /\ q.enabled)
                 => restored
            /\ (transaction = <<ToggleOf("enable", n), ToggleOf("disable", n)>> /\ ~q.enabled)
                 => restored]_vars

\* C13 witness: a query set with highlights is disabled, the total is back
\* at 0 and the cursor sees no highlight, after a transaction of a single
\* action that did not raise.
C13_Witness ==
  /\ applies = 2
  /\ transaction = <<>>
  /\ failed = <<FALSE>>
  /\ DOMAIN queries = {"A"}
  /\ ~queries["A"].enabled
  /\ queries["A"].length > 0
  /\ stats.total = 0
  /\ stats.highlight = 1 % maxHighlight
  /\ cursor.total = 0

Min(x, y) == IF x < y THEN x ELSE y

\* C14: a query set with a reserve never holds more highlights than the
\* reserve; an append wraps at most the slack q.reserve - q.length (exactly
\* the lesser of slack and hits when every hit wraps), and with slack 0 it
\* adds no highlight and no marker.
C14_LengthWithinReserve ==
  [][/\ \A n \in DOMAIN queries' :
          queries'[n].reserve # null => queries'[n].length <= queries'[n].reserve
     /\ \A a \in {b \in Range(transaction) :
                    /\ b.op = "append" /\ b.isArray
                    /\ b.name \in DOMAIN queries
                    /\ queries[b.name].reserve # null} :
          (Applying /\ transaction = <<a>>) =>
             LET q == queries[a.name]
                 slack == q.reserve - q.length
                 added == queries'[a.name].length - q.length
             IN /\ ~failed'[1]
                /\ queries'[a.name].reserve = q.reserve
                /\ added >= 0 /\ added <= slack
                /\ slack = 0 => UNCHANGED <<queries, highlights, dom, stats, lastId>>
                /\ \A doc \in Documents :
                     (Applied(a, doc) /\ AllWrap(doc)) =>
                        /\ added = Min(slack, HitCount(doc))
                        /\ Len(highlights') = Len(highlights) + added]_vars

\* C14 witness: a set added with reserve 2 and fewer hits (lastId was moved
\* to the reserve) has been filled up to its reserve by an append.
C14_Witness ==
  /\ applies = 2
  /\ transaction = <<>>
  /\ failed = <<FALSE>>
  /\ DOMAIN queries = {"A"}
  /\ stats.highlight = 1 % maxHighlight
  /\ lastId = 2
  /\ queries["A"].reserve = 2
  /\ queries["A"].length = 2

\* C15: an applied append(name, queries, true) to an existing query set also
\* enables it: afterwards q.enabled is true, and stats.total has moved by what
\* the set now contributes beyond what it contributed before.
C15_AppendTrueEnables ==
  [][\A a \in {b \in Range(transaction) :
                 /\ b.op = "append" /\ b.isArray /\ b.enabled
                 /\ b.name \in DOMAIN queries} :
       (Applying /\ transaction = <<a>>) =>
          /\ ~failed'[1]
          /\ queries'[a.name].enabled
          /\ stats'.total - stats.total =
               queries'[a.name].length
                 - (IF queries[a.name].enabled THEN queries[a.name].length ELSE 0)]_vars

C21_RemoveAdjustsStats ==
  [][/\ stats'.total >= 0
     /\ \A a \in {b \in Range(transaction) :
                    b.op = "remove" /\ b.name \in DOMAIN queries} :
          (Applying /\ transaction = <<a>>) =>
             /\ ~failed'[1]
             /\ stats'.queries = stats.queries - 1
             /\ stats'.total =
                  stats.total - (IF queries[a.name].enabled
                                 THEN queries[a.name].length ELSE 0)]_vars

\* Number of hits an array yields whose wrap succeeds.
RECURSIVE WrapCount(_)
WrapCount(doc) ==
  IF doc = <<>> THEN 0
  ELSE Cardinality({j \in 1..Len(Head(doc).hits) : Head(doc).hits[j].wraps})
         + WrapCount(Tail(doc))

\* C22: when the wrap of a hit fails during an add or an append, the marker
\* list afterwards holds no marker for that hit and q.length has not advanced
\* for it, while the other hits of the action are all processed: the set has
\* gained one marker and one highlight per hit that wrapped.
C22_WrapFailureLeavesNoMarker ==
  [][\A a \in {b \in Range(transaction) :
                 /\ b.op \in {"add", "append"} /\ b.isArray
                 /\ b.op = "append" => b.name \in DOMAIN queries} :
       \A doc \in MarkerDocuments :
         Applied(a, doc) =>
           LET appended == a.op = "append"
               markers0 == IF appended THEN MarkersOf(highlights, a.name) ELSE 0
               length0 == IF appended THEN queries[a.name].length ELSE 0
           IN /\ ~failed'[1]
              /\ queries'[a.name].length = length0 + WrapCount(doc)
              /\ MarkersOf(highlights', a.name) = markers0 + WrapCount(doc)]_vars

\* C23: a hit at the absolute offset of markers already in the list gets its
\* marker after all of them: after an applied add whose hits all wrap, among
\* markers of equal offset those of the added set come last and in the order
\* of their hits.
C23_TiesInsertAfterEqual ==
  [][\A a \in {b \in Range(transaction) : b.op = "add" /\ b.isArray} :
       \A doc \in MarkerDocuments :
         (Applied(a, doc) /\ AllWrap(doc)) =>
            \A i, j \in 1..Len(highlights') :
              (/\ i < j
               /\ highlights'[i].offset = highlights'[j].offset
               /\ highlights'[i].query = a.name)
              => /\ highlights'[j].query = a.name
                 /\ highlights'[i].index < highlights'[j].index]_vars

\* The positions in the marker list of the markers of the query set `name`.
PositionsOf(markers, name) == {i \in 1..Len(markers) : markers[i].query = name}

\* C24: after every apply(), the markers of each query set q carry pairwise
\* distinct indices, which are exactly 0 .. q.length - 1, also after appends.
C24_IndexIsOrdinal ==
  transaction = <<>> =>
    \A n \in DOMAIN queries :
      /\ \A i, j \in PositionsOf(highlights, n) :
           i # j => highlights[i].index # highlights[j].index
      /\ {highlights[i].index : i \in PositionsOf(highlights, n)}
           = 0..(queries[n].length - 1)

\* The markers that do not belong to the query set `name`, in list order.
RECURSIVE Others(_, _)
Others(markers, name) ==
  IF markers = <<>> THEN <<>>
  ELSE IF Head(markers).query = name THEN Others(Tail(markers), name)
  ELSE <<Head(markers)>> \o Others(Tail(markers), name)

\* C25: an applied remove(name) deletes exactly the markers of the removed
\* set, adjacent ones included, and the registry entry; every other marker is
\* kept as it was and in the same relative order, and the other query sets
\* (id, length, enabled, id_highlight) and lastId are unchanged.
C25_RemoveDeletesOnlyItsMarkers ==
  [][\A a \in {b \in Range(transaction) :
                 b.op = "remove" /\ b.name \in DOMAIN queries} :
       (Applying /\ transaction = <<a>>) =>
          /\ ~failed'[1]
          /\ MarkersOf(highlights', a.name) = 0
          /\ highlights' = Others(highlights, a.name)
          /\ DOMAIN queries' = DOMAIN queries \ {a.name}
          /\ \A n \in DOMAIN queries' : queries'[n] = queries[n]
          /\ lastId' = lastId]_vars

\* C25 witness: a remove has left the markers of the other query set, at
\* more than one offset, after a transaction that did not raise.
C25_Witness ==
  /\ applies = MaxApplies
  /\ transaction = <<>>
  /\ failed = <<FALSE>>
  /\ DOMAIN queries = {"B"}
  /\ stats.highlight = 2 % maxHighlight
  /\ Len(highlights) >= 2
  /\ highlights[1].offset < highlights[Len(highlights)].offset

\* C26: after every apply(), stats.queries is the number of query sets in
\* the registry, also after re-adding a name, after actions that raised and
\* after an add whose finder raised while its hits were streamed.
C26_QueriesCountsRegistry ==
  transaction = <<>> => stats.queries = Cardinality(DOMAIN queries)

\* -1 <= index < max(total, 1), and index = -1 when there is no highlight
CursorInRange(c) ==
  /\ c.index >= -1
  /\ c.index < (IF c.total > 1 THEN c.total ELSE 1)
  /\ c.total = 0 => c.index = -1

\* The action changes the instance when it does not raise.
ChangesState(a, qs) ==
  \/ a.op \in {"add", "append", "remove", "clear"}
  \/ a.op = "enable" /\ ~qs[a.name].enabled
  \/ a.op = "disable" /\ qs[a.name].enabled

AppliedAtOnce(qs) ==
  {[op |-> "remove", name |-> n] : n \in DOMAIN qs}
    \cup {[op |-> "add", name |-> n, isArray |-> TRUE, enabled |-> TRUE,
           reserve |-> null] : n \in Names}

\* C28: a click on a row's enable checkbox only enqueues enable or disable:
\* the sets' enabled state, stats.total and everything else stay as they are
\* until an apply() runs; a click on a row's remove control (or the page's
\* add) enqueues its action and applies at once, and that apply() executes
\* every toggle queued in between, in click order, before it.
C28_TogglesWaitForApply ==
  [][/\ ~Applying =>
          /\ \E t \in {Toggle(n, c) : n \in DOMAIN queries, c \in BOOLEAN} :
               transaction' = Append(transaction, t)
          /\ UNCHANGED <<queries, highlights, stats, lastId, cursor, dom>>
     /\ Applying =>
          /\ transaction' = <<>>
          /\ \E a \in AppliedAtOnce(queries) :
               [hh |-> This', failed |-> failed'] \in
                  StatesAfter(Append(transaction, a), This, WidgetDocuments)]_vars

\* C28 witness: the set A was added enabled, its row's checkbox was cleared,
\* and the add of B applied the queued disable before it: A is disabled and
\* only B counts toward stats.total.
C28_Witness ==
  /\ applies = 2
  /\ transaction = <<>>
  /\ failed = <<FALSE, FALSE>>
  /\ DOMAIN queries = {"A", "B"}
  /\ ~queries["A"].enabled
  /\ queries["A"].length > 0
  /\ queries["B"].enabled
  /\ stats.total = queries["B"].length

====
